---- MODULE Spec2Model ----
(***************************************************************************)
(* A model of edx_lint/pylint/feature_toggle_check.py: the two pylint      *)
(* checkers FeatureToggleChecker and FeatureToggleAnnotationChecker and    *)
(* the AnnotationLines helper.                                             *)
(*                                                                         *)
(* Python strings are sequences of one-character strings, so that regular  *)
(* expression matching, str.split, str.strip, str.endswith and the `in`    *)
(* substring test are computed, not assumed.  Python None is the empty     *)
(* tuple and a value v that may be None is carried as <<v>>.               *)
(***************************************************************************)
EXTENDS Integers, Sequences, FiniteSets, TLC

VARIABLES
    _lines,     \* FeatureToggleChecker._lines: None or Some(list of lines)
    messages,   \* the add_message calls of the callback that ran last, in order
    visited,    \* the callback that ran last and the node it was given
    probe,      \* the last direct is_line_annotated query and its answer
    cur,        \* host walk: the module being walked and its callbacks to make
    pos,        \* host walk: number of callbacks already made for cur
    report,     \* host walk: the messages collected for cur so far
    history     \* host walk: each module walked, with the report of its first walk

vars == <<_lines, messages, visited, probe, cur, pos, report, history>>
checkerVars == <<_lines, messages, visited>>
walkVars == <<cur, pos, report, history>>

----------------------------------------------------------------------------
(* Python values *)

None == <<>>
Some(v) == <<v>>
IsNone(o) == o = <<>>
Value(o) == o[1]

\* list membership: x in xs
InList(x, xs) == \E i \in 1..Len(xs) : xs[i] = x

\* All sequences over S of length at most n.
SeqsUpTo(S, n) == UNION {[1..k -> S] : k \in 0..n}

----------------------------------------------------------------------------
(* Characters and strings *)

\* What \s of the re module and str.strip() take for whitespace, among the
\* characters the model uses.
Whitespace == {" ", "\t", "\r", "\f", "\n"}

UpperCase ==
    {"A", "B", "C", "D", "E", "F", "G", "H", "I", "J", "K", "L", "M",
     "N", "O", "P", "Q", "R", "S", "T", "U", "V", "W", "X", "Y", "Z"}

\* s.startswith(p) at offset i (0-based): s[i:i+len(p)] == p
HasAt(s, i, p) ==
    /\ i + Len(p) <= Len(s)
    /\ \A k \in 1..Len(p) : s[i + k] = p[k]

\* str.endswith(suffix)
EndsWith(s, suffix) ==
    /\ Len(suffix) <= Len(s)
    /\ HasAt(s, Len(s) - Len(suffix), suffix)

\* needle in haystack, for two strings
Contains(haystack, needle) ==
    \E i \in 0..Len(haystack) : HasAt(haystack, i, needle)

\* str.strip(): leading and trailing whitespace removed
RECURSIVE LStrip(_)
LStrip(s) ==
    IF s # <<>> /\ Head(s) \in Whitespace THEN LStrip(Tail(s)) ELSE s

RECURSIVE RStrip(_)
RStrip(s) ==
    IF s # <<>> /\ s[Len(s)] \in Whitespace
    THEN RStrip(SubSeq(s, 1, Len(s) - 1))
    ELSE s

Strip(s) == RStrip(LStrip(s))

\* str.split("\n"): the pieces between line feeds; never an empty list
RECURSIVE SplitLines(_)
SplitLines(s) ==
    IF \E i \in 1..Len(s) : s[i] = "\n"
    THEN LET i == CHOOSE k \in 1..Len(s) :
                     /\ s[k] = "\n"
                     /\ \A j \in 1..(k - 1) : s[j] # "\n"
         IN  <<SubSeq(s, 1, i - 1)>> \o SplitLines(SubSeq(s, i + 1, Len(s)))
    ELSE <<s>>

\* The code points of the characters a module's text is made of here; all
\* are ASCII, where UTF-8 (the default) and every ASCII-compatible declared
\* encoding decode one byte to one character.
Ord ==
    [c \in {"\n", "\t", " ", "#", ".", "1", "=", "_", "e", "g", "l", "o", "t", "x"} |->
        CASE c = "\n" -> 10 [] c = "\t" -> 9  [] c = " " -> 32
          [] c = "#" -> 35  [] c = "." -> 46  [] c = "1" -> 49
          [] c = "=" -> 61  [] c = "_" -> 95
          [] c = "e" -> 101 [] c = "g" -> 103 [] c = "l" -> 108
          [] c = "o" -> 111 [] c = "t" -> 116 [] c = "x" -> 120]

\* bytes.decode(file_encoding)
Decode(bytes, file_encoding) ==
    [i \in 1..Len(bytes) |-> CHOOSE c \in DOMAIN Ord : Ord[c] = bytes[i]]

\* What the host read from the file: the text, encoded.
Encode(text) == [i \in 1..Len(text) |-> Ord[text[i]]]

----------------------------------------------------------------------------
(* class AnnotationLines *)

toggle == <<"t", "o", "g", "g", "l", "e">>

\* Index (0-based) of the first character at or after i that is not
\* whitespace: what [\s]* consumes.  The pattern element that follows each
\* [\s]* is a literal that is not whitespace, so backtracking into a shorter
\* run can never produce a match the longest run does not.
RECURSIVE SkipWhitespace(_, _)
SkipWhitespace(s, i) ==
    IF i < Len(s) /\ s[i + 1] \in Whitespace THEN SkipWhitespace(s, i + 1) ELSE i

\* The pattern searched for anywhere in s, as re.search would.
_ANNOTATION_REGEX_search(s) ==
    \E start \in 0..Len(s) :
        LET a == SkipWhitespace(s, start)
            b == SkipWhitespace(s, a + 1)
            c == SkipWhitespace(s, b + 2)
        IN  /\ HasAt(s, a, <<"#">>)
            /\ HasAt(s, b, <<".", ".">>)
            /\ HasAt(s, c, toggle)

\* _ANNOTATION_REGEX.match(s): [\s]*#[\s]*\.\.[\s]*(toggle), anchored at the
\* start of s and free at its end.
_ANNOTATION_REGEX_match(s) ==
    LET a == SkipWhitespace(s, 0)
        b == SkipWhitespace(s, a + 1)
        c == SkipWhitespace(s, b + 2)
    IN  /\ HasAt(s, a, <<"#">>)
        /\ HasAt(s, b, <<".", ".">>)
        /\ HasAt(s, c, toggle)

\* AnnotationLines.__init__: the object is its _list_of_string_lines.
AnnotationLines(module_node) ==
    LET module_as_binary == module_node.stream
        file_encoding == IF IsNone(module_node.file_encoding)
                         THEN Some("UTF-8")
                         ELSE module_node.file_encoding
        module_as_string == Decode(module_as_binary, Value(file_encoding))
    IN  SplitLines(module_as_string)

_line_count(self) == Len(self)

_get_line_contents(self, line_number) == self[line_number]

is_line_annotated(self, line_number) ==
    IF line_number < 1 \/ _line_count(self) < line_number
    THEN FALSE
    ELSE _ANNOTATION_REGEX_match(_get_line_contents(self, line_number))

----------------------------------------------------------------------------
(* Attribute access on the host's nodes.  A node is a record; hasattr(o, a) *)
(* is a \in DOMAIN o, and reading a missing attribute raises AttributeError. *)

HasAttr(o, a) == a \in DOMAIN o

----------------------------------------------------------------------------
(* class FeatureToggleChecker *)

TOGGLE_NOT_ANNOTATED_MESSAGE_ID == "feature-toggle-needs-doc"
ILLEGAL_WAFFLE_MESSAGE_ID == "illegal-waffle-usage"

UNKNOWN == <<"U", "N", "K", "N", "O", "W", "N">>
WaffleFlag == <<"W", "a", "f", "f", "l", "e", "F", "l", "a", "g">>
WaffleSwitch == <<"W", "a", "f", "f", "l", "e", "S", "w", "i", "t", "c", "h">>
CourseWaffleFlag == <<"C", "o", "u", "r", "s", "e">> \o WaffleFlag
flag_is_active ==
    <<"f", "l", "a", "g", "_", "i", "s", "_", "a", "c", "t", "i", "v", "e">>
switch_is_active ==
    <<"s", "w", "i", "t", "c", "h", "_", "i", "s", "_", "a", "c", "t", "i", "v", "e">>
ConfigurationModel ==
    <<"C", "o", "n", "f", "i", "g", "u", "r", "a", "t", "i", "o", "n",
      "M", "o", "d", "e", "l">>
FEATURES == <<"F", "E", "A", "T", "U", "R", "E", "S">>

_WAFFLE_TOGGLE_CLASSES == <<WaffleFlag, WaffleSwitch, CourseWaffleFlag>>
_ILLEGAL_WAFFLE_FUNCTIONS == <<flag_is_active, switch_is_active>>

\* _CHECK_CAPITAL_REGEX.match(name): [A-Z] at the start of name
_CHECK_CAPITAL_REGEX_match(name) == name # <<>> /\ name[1] \in UpperCase

\* name.endswith(_WAFFLE_TOGGLE_CLASSES): any member of the tuple
EndsWithAny(name, suffixes) ==
    \E i \in 1..Len(suffixes) : EndsWith(name, suffixes[i])

\* self.add_message(msg_id, args=args, node=node)
Message(msg_id, args, node) == [msg_id |-> msg_id, args |-> args, node |-> node]

\* The loop over node.keywords: every keyword named flag_name assigns its
\* value's literal to feature_toggle_name.
RECURSIVE KeywordsLoop(_, _)
KeywordsLoop(keywords, feature_toggle_name) ==
    IF keywords = <<>>
    THEN feature_toggle_name
    ELSE LET node_key == Head(keywords)
         IN  KeywordsLoop(Tail(keywords),
                          IF node_key.arg = Some("flag_name")
                          THEN node_key.value.value
                          ELSE feature_toggle_name)

\* Lines 132-141: the name a missing-annotation message carries for a call.
WaffleToggleName(node) ==
    LET from_keywords ==
            IF ~IsNone(node.keywords)
            THEN KeywordsLoop(Value(node.keywords), UNKNOWN)
            ELSE UNKNOWN
    IN  IF from_keywords = UNKNOWN /\ Len(node.args) >= 2
        THEN node.args[2]
        ELSE from_keywords

\* The check made on the call's own line instead of the line before it.
check_waffle_class_on_own_line(self, node) ==
    IF ~HasAttr(node.func, "name") THEN <<>>
    ELSE IF ~_CHECK_CAPITAL_REGEX_match(node.func.name) THEN <<>>
    ELSE IF ~EndsWithAny(node.func.name, _WAFFLE_TOGGLE_CLASSES) THEN <<>>
    ELSE IF ~is_line_annotated(self, node.lineno)
         THEN <<Message(TOGGLE_NOT_ANNOTATED_MESSAGE_ID,
                        <<WaffleToggleName(node)>>, node)>>
         ELSE <<>>

check_waffle_class_annotated(self, node) ==
    IF ~HasAttr(node.func, "name") THEN <<>>
    ELSE IF ~_CHECK_CAPITAL_REGEX_match(node.func.name) THEN <<>>
    ELSE IF ~EndsWithAny(node.func.name, _WAFFLE_TOGGLE_CLASSES) THEN <<>>
    ELSE IF ~is_line_annotated(self, node.lineno - 1)
         THEN <<Message(TOGGLE_NOT_ANNOTATED_MESSAGE_ID,
                        <<WaffleToggleName(node)>>, node)>>
         ELSE <<>>

check_configuration_model_annotated(self, node) ==
    IF ~InList(ConfigurationModel, node.basenames) THEN <<>>
    ELSE IF ~is_line_annotated(self, node.lineno - 1)
         THEN <<Message(TOGGLE_NOT_ANNOTATED_MESSAGE_ID, <<node.name>>, node)>>
         ELSE <<>>

\* Lines 171-174: node.parent.targets[0].name, None when an attribute of
\* the chain is missing (the AttributeError the code catches).
ParentTargetName(node) ==
    IF /\ HasAttr(node, "parent")
       /\ HasAttr(node.parent, "targets")
       /\ HasAttr(node.parent.targets[1], "name")
    THEN Some(node.parent.targets[1].name)
    ELSE None

\* The loop with the line before the dictionary probed for every key.
RECURSIVE ItemsLoopOnDictLine(_, _, _)
ItemsLoopOnDictLine(self, items, node) ==
    IF items = <<>>
    THEN <<>>
    ELSE LET key == Head(items)[1]
         IN  (IF ~is_line_annotated(self, node.lineno - 1)
              THEN <<Message(TOGGLE_NOT_ANNOTATED_MESSAGE_ID, <<key.value>>, node)>>
              ELSE <<>>)
             \o ItemsLoopOnDictLine(self, Tail(items), node)

\* Lines 177-185: the loop over node.items
RECURSIVE ItemsLoop(_, _, _)
ItemsLoop(self, items, node) ==
    IF items = <<>>
    THEN <<>>
    ELSE LET key == Head(items)[1]
         IN  (IF ~is_line_annotated(self, key.lineno - 1)
              THEN <<Message(TOGGLE_NOT_ANNOTATED_MESSAGE_ID, <<key.value>>, node)>>
              ELSE <<>>)
             \o ItemsLoop(self, Tail(items), node)

check_django_feature_flag_annotated(self, node) ==
    LET parent_target_name == ParentTargetName(node)
    IN  IF IsNone(parent_target_name) THEN <<>>
        ELSE IF Value(parent_target_name) = FEATURES
             THEN ItemsLoop(self, node.items, node)
             ELSE <<>>

\* The name taken as check_waffle_class_annotated takes it: from the
\* second positional argument.
check_illegal_waffle_second_arg(node) ==
    IF ~HasAttr(node.func, "name") THEN <<>>
    ELSE IF InList(node.func.name, _ILLEGAL_WAFFLE_FUNCTIONS)
         THEN <<Message(ILLEGAL_WAFFLE_MESSAGE_ID,
                        <<IF Len(node.args) >= 2 THEN node.args[2] ELSE UNKNOWN>>,
                        node)>>
         ELSE <<>>

check_illegal_waffle_usage(node) ==
    IF ~HasAttr(node.func, "name") THEN <<>>
    ELSE IF InList(node.func.name, _ILLEGAL_WAFFLE_FUNCTIONS)
         THEN <<Message(ILLEGAL_WAFFLE_MESSAGE_ID,
                        <<IF Len(node.args) >= 1 THEN node.args[1] ELSE UNKNOWN>>,
                        node)>>
         ELSE <<>>

\* The line index built for the first module only and kept afterwards.
visit_module_cached(node) ==
    /\ _lines' = IF IsNone(_lines) THEN Some(AnnotationLines(node)) ELSE _lines
    /\ messages' = <<>>
    /\ visited' = [op |-> "visit_module", node |-> node]

\* FeatureToggleChecker.visit_module
visit_module(node) ==
    /\ _lines' = Some(AnnotationLines(node))
    /\ messages' = <<>>
    /\ visited' = [op |-> "visit_module", node |-> node]

\* FeatureToggleChecker.visit_call.  The host visits a module before the
\* nodes in it, so _lines is set.
visit_call(node) ==
    /\ ~IsNone(_lines)
    /\ messages' = check_waffle_class_annotated(Value(_lines), node)
                     \o check_illegal_waffle_usage(node)
    /\ visited' = [op |-> "visit_call", node |-> node]
    /\ UNCHANGED _lines

\* FeatureToggleChecker.visit_classdef
visit_classdef(node) ==
    /\ ~IsNone(_lines)
    /\ messages' = check_configuration_model_annotated(Value(_lines), node)
    /\ visited' = [op |-> "visit_classdef", node |-> node]
    /\ UNCHANGED _lines

\* FeatureToggleChecker.visit_dict
visit_dict(node) ==
    /\ ~IsNone(_lines)
    /\ messages' = check_django_feature_flag_annotated(Value(_lines), node)
    /\ visited' = [op |-> "visit_dict", node |-> node]
    /\ UNCHANGED _lines

----------------------------------------------------------------------------
(* class FeatureToggleAnnotationChecker *)

INCORRECT_NAME_MESSAGE_ID == "toggle-incorrect-name"
EMPTY_DESCRIPTION_MESSAGE_ID == "toggle-empty-description"
MISSING_TARGET_REMOVAL_DATE_MESSAGE_ID == "toggle-missing-target-removal-date"
NON_BOOLEAN_DEFAULT_VALUE == "toggle-non-boolean-default-value"

TOGGLE_NAME == ".. toggle_name:"
TOGGLE_DESCRIPTION == ".. toggle_description:"
TOGGLE_USE_CASES == ".. toggle_use_cases:"
TOGGLE_TARGET_REMOVAL_DATE == ".. toggle_target_removal_date:"
TOGGLE_DEFAULT == ".. toggle_default:"

temporary == <<"t", "e", "m", "p", "o", "r", "a", "r", "y">>
StrTrue == <<"T", "r", "u", "e">>
StrFalse == <<"F", "a", "l", "s", "e">>

\* Lines 301-305: the locals before the loop
GroupLocals ==
    [target_removal_date |-> None,
     temporary_use_case  |-> FALSE,
     toggle_name         |-> <<>>,
     toggle_description  |-> <<>>,
     toggle_default      |-> None]

\* The iteration with the use cases compared to "temporary" instead of
\* searched for it.
AnnotationStepExactUseCase(v, annotation) ==
    LET token == annotation.annotation_token
        data  == annotation.annotation_data
    IN  IF token = TOGGLE_NAME
        THEN [v EXCEPT !.toggle_name = data]
        ELSE IF token = TOGGLE_DESCRIPTION
        THEN [v EXCEPT !.toggle_description = Strip(data)]
        ELSE IF token = TOGGLE_USE_CASES
        THEN IF data = temporary
             THEN [v EXCEPT !.temporary_use_case = TRUE]
             ELSE v
        ELSE IF token = TOGGLE_TARGET_REMOVAL_DATE
        THEN [v EXCEPT !.target_removal_date = Some(data)]
        ELSE IF token = TOGGLE_DEFAULT
        THEN [v EXCEPT !.toggle_default = Some(data)]
        ELSE v

\* The iteration with the first toggle_default kept.
AnnotationStepFirstDefault(v, annotation) ==
    LET token == annotation.annotation_token
        data  == annotation.annotation_data
    IN  IF token = TOGGLE_NAME
        THEN [v EXCEPT !.toggle_name = data]
        ELSE IF token = TOGGLE_DESCRIPTION
        THEN [v EXCEPT !.toggle_description = Strip(data)]
        ELSE IF token = TOGGLE_USE_CASES
        THEN IF Contains(data, temporary)
             THEN [v EXCEPT !.temporary_use_case = TRUE]
             ELSE v
        ELSE IF token = TOGGLE_TARGET_REMOVAL_DATE
        THEN [v EXCEPT !.target_removal_date = Some(data)]
        ELSE IF token = TOGGLE_DEFAULT
        THEN IF IsNone(v.toggle_default)
             THEN [v EXCEPT !.toggle_default = Some(data)]
             ELSE v
        ELSE v

\* Lines 307-317: one iteration of the loop over the annotations
AnnotationStep(v, annotation) ==
    LET token == annotation.annotation_token
        data  == annotation.annotation_data
    IN  IF token = TOGGLE_NAME
        THEN [v EXCEPT !.toggle_name = data]
        ELSE IF token = TOGGLE_DESCRIPTION
        THEN [v EXCEPT !.toggle_description = Strip(data)]
        ELSE IF token = TOGGLE_USE_CASES
        THEN IF Contains(data, temporary)
             THEN [v EXCEPT !.temporary_use_case = TRUE]
             ELSE v
        ELSE IF token = TOGGLE_TARGET_REMOVAL_DATE
        THEN [v EXCEPT !.target_removal_date = Some(data)]
        ELSE IF token = TOGGLE_DEFAULT
        THEN [v EXCEPT !.toggle_default = Some(data)]
        ELSE v

\* Lines 306-317: the loop
RECURSIVE AnnotationsLoop(_, _)
AnnotationsLoop(v, annotations) ==
    IF annotations = <<>>
    THEN v
    ELSE AnnotationsLoop(AnnotationStep(v, Head(annotations)), Tail(annotations))

\* The four rules chained with elif: only the first that applies fires.
GroupMessagesFirstOnly(v, node) ==
    IF v.toggle_name = <<>>
    THEN <<Message(INCORRECT_NAME_MESSAGE_ID, <<>>, node)>>
    ELSE IF v.toggle_description = <<>>
    THEN <<Message(EMPTY_DESCRIPTION_MESSAGE_ID, <<v.toggle_name>>, node)>>
    ELSE IF /\ v.temporary_use_case
            /\ (IsNone(v.target_removal_date) \/ Value(v.target_removal_date) = <<>>)
    THEN <<Message(MISSING_TARGET_REMOVAL_DATE_MESSAGE_ID, <<v.toggle_name>>, node)>>
    ELSE IF ~(v.toggle_default = Some(StrTrue) \/ v.toggle_default = Some(StrFalse))
    THEN <<Message(NON_BOOLEAN_DEFAULT_VALUE, <<v.toggle_name>>, node)>>
    ELSE <<>>

\* Lines 319-341: the four rules, in the order of the code
GroupMessages(v, node) ==
    (IF v.toggle_name = <<>>
     THEN <<Message(INCORRECT_NAME_MESSAGE_ID, <<>>, node)>>
     ELSE <<>>)
    \o
    (IF v.toggle_description = <<>>
     THEN <<Message(EMPTY_DESCRIPTION_MESSAGE_ID, <<v.toggle_name>>, node)>>
     ELSE <<>>)
    \o
    (IF /\ v.temporary_use_case
        /\ (IsNone(v.target_removal_date) \/ Value(v.target_removal_date) = <<>>)
     THEN <<Message(MISSING_TARGET_REMOVAL_DATE_MESSAGE_ID, <<v.toggle_name>>, node)>>
     ELSE <<>>)
    \o
    (IF ~(v.toggle_default = Some(StrTrue) \/ v.toggle_default = Some(StrFalse))
     THEN <<Message(NON_BOOLEAN_DEFAULT_VALUE, <<v.toggle_name>>, node)>>
     ELSE <<>>)

check_feature_toggles_annotation_group(annotations, node) ==
    IF annotations = <<>>
    THEN <<>>
    ELSE GroupMessages(AnnotationsLoop(GroupLocals, annotations), node)

\* Lines 291-292: the groups of one file, in order
RECURSIVE GroupsLoop(_, _)
GroupsLoop(groups, node) ==
    IF groups = <<>>
    THEN <<>>
    ELSE check_feature_toggles_annotation_group(Head(groups), node)
           \o GroupsLoop(Tail(groups), node)

\* Lines 290-292: the files of the search results, in order
RECURSIVE ResultsLoop(_, _)
ResultsLoop(results, node) ==
    IF results = <<>>
    THEN <<>>
    ELSE GroupsLoop(Head(results), node) \o ResultsLoop(Tail(results), node)

\* FeatureToggleAnnotationChecker.visit_module.  results is what
\* self.search.search() finds under node.path[0], one entry per file, each
\* the groups self.search.iter_groups yields for it.
annotation_visit_module(node, results) ==
    /\ messages' = ResultsLoop(results, node)
    /\ visited' = [op |-> "annotation_visit_module", node |-> node,
                   results |-> results]
    /\ UNCHANGED _lines

----------------------------------------------------------------------------
(* The inputs the host hands to the callbacks *)

MaxLines == 2
MaxArgs == 2
MaxKeywords == 2
MaxBases == 2
MaxItems == 2
MaxGroupLen == 4

\* "\n".join(lines)
RECURSIVE Join(_)
Join(lines) ==
    IF Len(lines) = 1
    THEN lines[1]
    ELSE lines[1] \o <<"\n">> \o Join(Tail(lines))

AnnotLine == <<"#", " ", ".", ".", " ">> \o toggle
CodeLine == <<"x">>

ModuleTexts == {Join(ls) : ls \in SeqsUpTo({AnnotLine, CodeLine}, MaxLines) \ {<<>>}}

\* A module node: node.path[0] names the file, node.stream() reads it.
ModuleNode(path, text, file_encoding) ==
    [path |-> <<path>>, stream |-> Encode(text), file_encoding |-> file_encoding]

m_py == <<"m", ".", "p", "y">>

ModuleNodes == {ModuleNode(m_py, t, e) : t \in ModuleTexts, e \in {None, Some("utf-8")}}

LineNumbers == 1..(MaxLines + 1)

FuncNames ==
    {WaffleFlag, WaffleSwitch, CourseWaffleFlag,
     <<"M", "y">> \o WaffleFlag, <<"m", "y">> \o WaffleFlag,
     <<"_">> \o WaffleSwitch, WaffleFlag \o <<"s">>,
     flag_is_active, switch_is_active,
     <<"x">> \o flag_is_active, <<"F", "o", "o">>}

\* A callee is a Name (it has .name) or an Attribute (it has .attrname).
Funcs ==
    {[name |-> n] : n \in FuncNames}
      \cup {[attrname |-> n] : n \in {WaffleFlag, flag_is_active}}

\* Positional arguments, each as its as_string() rendering.
ArgRenderings == <<"a", "b", "c", "d">>

ArgLists == {[i \in 1..k |-> <<ArgRenderings[i]>>] : k \in 0..MaxArgs}

Keyword(arg, value) == [arg |-> Some(arg), value |-> [value |-> value]]

Keywords ==
    {Keyword("flag_name", <<"f">>), Keyword("flag_name", UNKNOWN),
     Keyword("other", <<"o">>)}

\* Python rejects a call that repeats a keyword.
KeywordLists ==
    {ks \in SeqsUpTo(Keywords, MaxKeywords) :
        \A i, j \in 1..Len(ks) : i # j => ks[i].arg # ks[j].arg}

CallNodes ==
    {[func |-> f, args |-> a, keywords |-> k, lineno |-> l] :
        f \in Funcs, a \in ArgLists,
        k \in {None} \cup {Some(ks) : ks \in KeywordLists}, l \in LineNumbers}

BaseNames ==
    {ConfigurationModel, <<"M", "o", "d", "e", "l">>, ConfigurationModel \o <<"s">>}

ClassNodes ==
    {[name |-> n, basenames |-> b, lineno |-> l] :
        n \in {<<"F", "o", "o">>, <<"B", "a", "r">>},
        b \in SeqsUpTo(BaseNames, MaxBases), l \in LineNumbers}

\* What encloses a dictionary literal: an assignment with its targets (a
\* Name has .name, an attribute target has .attrname), an annotated
\* assignment (.target) or an expression that is no assignment.
Parents ==
    {[targets |-> ts] :
        ts \in {<<[name |-> FEATURES]>>, <<[name |-> <<"O">>]>>,
                <<[attrname |-> FEATURES]>>,
                <<[name |-> FEATURES], [name |-> <<"O">>]>>,
                <<[name |-> <<"O">>], [name |-> FEATURES]>>}}
      \cup {[target |-> [name |-> FEATURES]], [func |-> [name |-> FEATURES]]}

Keys == {[value |-> v, lineno |-> l] : v \in {<<"j">>, <<"k">>}, l \in LineNumbers}

\* The entries of a literal lie at or below its first line, in source order.
ItemLists(lineno) ==
    {[i \in 1..Len(ks) |-> <<ks[i], [value |-> StrTrue]>>] :
        ks \in {s \in SeqsUpTo(Keys, MaxItems) :
                   /\ \A i \in 1..Len(s) : s[i].lineno >= lineno
                   /\ \A i \in 1..(Len(s) - 1) : s[i].lineno <= s[i + 1].lineno}}

DictNodes ==
    UNION {{[parent |-> p, items |-> it, lineno |-> l] :
               p \in Parents, it \in ItemLists(l)} : l \in LineNumbers}

Annotation(token, data) == [annotation_token |-> token, annotation_data |-> data]

Annotations ==
    {Annotation(TOGGLE_NAME, d) : d \in {<<>>, <<"N">>}}
      \cup {Annotation(TOGGLE_DESCRIPTION, d) : d \in {<<" ">>, <<" ", "d", " ">>}}
      \cup {Annotation(TOGGLE_USE_CASES, d) :
               d \in {temporary \o <<",", " ", "r", "e", "l", "e", "a", "s", "e">>,
                      <<"o", "p", "t", "_", "i", "n">>,
                      <<"T">> \o Tail(temporary)}}
      \cup {Annotation(TOGGLE_TARGET_REMOVAL_DATE, d) : d \in {<<>>, <<"2", "0", "3", "0">>}}
      \cup {Annotation(TOGGLE_DEFAULT, d) :
               d \in {StrTrue, StrFalse, <<"t", "r", "u", "e">>}}
      \cup {Annotation(".. toggle_implementation:", <<"x">>)}

Groups == SeqsUpTo(Annotations, MaxGroupLen)

GoodGroup ==
    <<Annotation(TOGGLE_NAME, <<"N">>), Annotation(TOGGLE_DESCRIPTION, <<" ", "d", " ">>),
      Annotation(TOGGLE_DEFAULT, StrTrue)>>

BadGroup == <<Annotation(TOGGLE_DEFAULT, <<"t", "r", "u", "e">>)>>

\* search(): one entry per file searched, each the list of its groups.
SearchResults ==
    {<<>>} \cup {<< <<g>> >> : g \in Groups}
      \cup {<< <<g1, g2>> >> : g1, g2 \in {GoodGroup, BadGroup}}
      \cup {<< <<g1>>, <<g2>> >> : g1, g2 \in {GoodGroup, BadGroup}}

----------------------------------------------------------------------------
(* The host's walk of a module: it calls the checkers back, one callback at *)
(* a time, in the order of cur.events.                                      *)

Event(kind, node) == [kind |-> kind, node |-> node]

\* A module to walk: its node, what the annotation search finds in its file
\* and the callbacks the walk makes.
Module(node, results, events) == [node |-> node, results |-> results, events |-> events]

Pending(kind) == pos < Len(cur.events) /\ cur.events[pos + 1].kind = kind

Step ==
    /\ pos' = pos + 1
    /\ report' = report \o messages'
    /\ UNCHANGED <<cur, history, probe>>

WalkVisitModule == Pending("module") /\ visit_module(cur.node) /\ Step

WalkAnnotations ==
    Pending("annotations") /\ annotation_visit_module(cur.node, cur.results) /\ Step

WalkCall == Pending("call") /\ visit_call(cur.events[pos + 1].node) /\ Step

WalkClassdef == Pending("classdef") /\ visit_classdef(cur.events[pos + 1].node) /\ Step

WalkDict == Pending("dict") /\ visit_dict(cur.events[pos + 1].node) /\ Step

\* The checkers after construction, before the walk of module m.
Start(m) ==
    /\ _lines = None
    /\ messages = <<>>
    /\ visited = [op |-> "__init__"]
    /\ probe = None
    /\ cur = m
    /\ pos = 0
    /\ report = <<>>
    /\ history = {}

----------------------------------------------------------------------------
(* Spec: FeatureToggleChecker on a module and one node of it *)

Nodes ==
    {Event("call", n) : n \in CallNodes}
      \cup {Event("classdef", n) : n \in ClassNodes}
      \cup {Event("dict", n) : n \in DictNodes}

Init ==
    \E m \in ModuleNodes, e \in Nodes :
        Start(Module(m, <<>>, <<Event("module", m), e>>))

Next == WalkVisitModule \/ WalkCall \/ WalkClassdef \/ WalkDict

Spec == Init /\ [][Next]_vars

----------------------------------------------------------------------------
(* SpecGroups: FeatureToggleAnnotationChecker on the groups of a module *)

InitGroups ==
    \E r \in SearchResults :
        Start(Module(ModuleNode(m_py, CodeLine, None), r, <<Event("annotations", None)>>))

NextGroups == WalkAnnotations

SpecGroups == InitGroups /\ [][NextGroups]_vars

----------------------------------------------------------------------------
(* SpecLines: AnnotationLines built from a module and queried *)

MaxPrefixLen == 4
MaxProbe == 3

\* A direct query of the line index the checker holds.
Probe(line_number) ==
    /\ ~IsNone(_lines)
    /\ probe' = Some([line_number |-> line_number,
                      result |-> is_line_annotated(Value(_lines), line_number)])
    /\ UNCHANGED <<checkerVars, walkVars>>

\* Lines made of a short run of marker characters and a word.
Lines ==
    {p \o w : p \in SeqsUpTo({" ", "#", ".", "x"}, MaxPrefixLen),
              w \in {<<>>, toggle, toggle \o <<"_", "x">>, <<"t", "o", "g", "g", "l">>}}
      \cup {<<" ", "#", " ", ".", ".", " ">> \o toggle,
            <<"\t", "#", "\t", ".", ".", "\t">> \o toggle,
            <<"x", " ", "=", " ", "1", " ", " ">> \o AnnotLine,
            <<"#", " ", ".", " ", ".", " ">> \o toggle,
            <<"#", " ", ".", ".", " ", "t", " ">> \o toggle}

LineTexts ==
    Lines \cup {CodeLine \o <<"\n">> \o l : l \in Lines}
          \cup {l \o <<"\n">> : l \in Lines}

InitLines ==
    \E t \in LineTexts, e \in {None, Some("utf-8")} :
        /\ e = None \/ t \in Lines
        /\ Start(Module(ModuleNode(m_py, t, e), <<>>, <<Event("module", None)>>))

NextLines == WalkVisitModule \/ \E n \in (0 - 1)..MaxProbe : Probe(n)

SpecLines == InitLines /\ [][NextLines]_vars

----------------------------------------------------------------------------
(* SpecRuns: the host walks module after module with the same checkers *)

\* The walk of cur is over: the host keeps the report of a module's first
\* walk and goes on to any module, walked before or not.
NextModule(m) ==
    /\ pos = Len(cur.events)
    /\ history' = IF \E h \in history : h.module = cur
                  THEN history
                  ELSE history \cup {[module |-> cur, report |-> report]}
    /\ cur' = m
    /\ pos' = 0
    /\ report' = <<>>
    /\ UNCHANGED <<checkerVars, probe>>

Call(name, args, lineno) ==
    Event("call", [func |-> [name |-> name], args |-> args, keywords |-> None,
                   lineno |-> lineno])

FeaturesDict(lineno, keyLines) ==
    Event("dict",
          [parent |-> [targets |-> <<[name |-> FEATURES]>>],
           items |-> [i \in 1..Len(keyLines) |->
                        <<[value |-> <<ArgRenderings[i]>>, lineno |-> keyLines[i]],
                          [value |-> StrTrue]>>],
           lineno |-> lineno])

Trees ==
    <<<<Call(WaffleFlag, <<<<"a">>, <<"b">>>>, 2),
       Event("classdef", [name |-> <<"F", "o", "o">>,
                          basenames |-> <<ConfigurationModel>>, lineno |-> 2]),
       Call(flag_is_active, <<<<"a">>>>, 2)>>,
     <<FeaturesDict(1, <<2, 3>>)>>>>

\* The files of the run, each under a path of its own: its text, what the
\* annotation search finds in it and the nodes of its tree.
RunModules ==
    {Module(ModuleNode(<<t.name, r.name, tree.name>> \o m_py, t.text, None), r.results,
            <<Event("module", None), Event("annotations", None)>> \o tree.nodes) :
        t \in {[name |-> "a", text |-> Join(<<AnnotLine, CodeLine>>)],
               [name |-> "c", text |-> Join(<<CodeLine, CodeLine>>)]},
        r \in {[name |-> "g", results |-> << <<GoodGroup>> >>],
               [name |-> "b", results |-> << <<BadGroup, GoodGroup>> >>]},
        tree \in {[name |-> "1", nodes |-> Trees[1]],
                  [name |-> "2", nodes |-> Trees[2]]}}

InitRuns == \E m \in RunModules : Start(m)

NextRuns ==
    \/ WalkVisitModule
    \/ WalkAnnotations
    \/ WalkCall
    \/ WalkClassdef
    \/ WalkDict
    \/ \E m \in RunModules : NextModule(m)

SpecRuns == InitRuns /\ [][NextRuns]_vars

----------------------------------------------------------------------------
(* Properties of the content rules (SpecGroups) *)

\* The callback that ran last checked exactly one group, TheGroup.
GroupChecked ==
    /\ visited.op = "annotation_visit_module"
    /\ Len(visited.results) = 1
    /\ Len(visited.results[1]) = 1

TheGroup == visited.results[1][1]

MessageIds == [i \in 1..Len(messages) |-> messages[i].msg_id]

RecognizedTokens ==
    {TOGGLE_NAME, TOGGLE_DESCRIPTION, TOGGLE_USE_CASES,
     TOGGLE_TARGET_REMOVAL_DATE, TOGGLE_DEFAULT}

Occurrences(g, token) == {i \in 1..Len(g) : g[i].annotation_token = token}

Present(g, token) == Occurrences(g, token) # {}

\* The group holds each recognized token at most once.
NoDuplicates(g) == \A t \in RecognizedTokens : Cardinality(Occurrences(g, t)) <= 1

\* The data of the last occurrence of a token that is present.
DataOf(g, token) ==
    LET last == CHOOSE i \in Occurrences(g, token) :
                    \A j \in Occurrences(g, token) : j <= i
    IN  g[last].annotation_data

Blank(data) == \A i \in 1..Len(data) : data[i] \in Whitespace

HasTemporary(data) ==
    \E i \in 1..Len(data) :
        /\ i + Len(temporary) - 1 <= Len(data)
        /\ SubSeq(data, i, i + Len(temporary) - 1) = temporary

NameRule(g) == ~Present(g, TOGGLE_NAME) \/ DataOf(g, TOGGLE_NAME) = <<>>

DescriptionRule(g) ==
    ~Present(g, TOGGLE_DESCRIPTION) \/ Blank(DataOf(g, TOGGLE_DESCRIPTION))

IsTemporary(g) ==
    \E i \in Occurrences(g, TOGGLE_USE_CASES) : HasTemporary(g[i].annotation_data)

DefaultRule(g) ==
    \/ ~Present(g, TOGGLE_DEFAULT)
    \/ DataOf(g, TOGGLE_DEFAULT) \notin {StrTrue, StrFalse}

\* The message ids of the rules that apply, in the order name, description,
\* removal date, default.
RuleIds(name, description, date, default) ==
    (IF name THEN <<INCORRECT_NAME_MESSAGE_ID>> ELSE <<>>)
      \o (IF description THEN <<EMPTY_DESCRIPTION_MESSAGE_ID>> ELSE <<>>)
      \o (IF date THEN <<MISSING_TARGET_REMOVAL_DATE_MESSAGE_ID>> ELSE <<>>)
      \o (IF default THEN <<NON_BOOLEAN_DEFAULT_VALUE>> ELSE <<>>)

\* C1, as claimed: for a group, the four rules fire independently and in
\* order, the removal-date rule exactly when the use cases contain
\* "temporary" and toggle_target_removal_date is absent.
C1_AsClaimed ==
    (GroupChecked /\ TheGroup # <<>> /\ NoDuplicates(TheGroup)) =>
        MessageIds =
            RuleIds(NameRule(TheGroup), DescriptionRule(TheGroup),
                    IsTemporary(TheGroup)
                      /\ ~Present(TheGroup, TOGGLE_TARGET_REMOVAL_DATE),
                    DefaultRule(TheGroup))

\* C1, amended: for a non-empty group holding each token at most once, the
\* messages are exactly those of the rules that apply, in the order name,
\* description, removal date, default; the removal-date rule applies when
\* the use cases contain "temporary" and toggle_target_removal_date is
\* absent or empty.
C1_ContentRules ==
    (GroupChecked /\ TheGroup # <<>> /\ NoDuplicates(TheGroup)) =>
        MessageIds =
            RuleIds(NameRule(TheGroup), DescriptionRule(TheGroup),
                    IsTemporary(TheGroup)
                      /\ (\/ ~Present(TheGroup, TOGGLE_TARGET_REMOVAL_DATE)
                          \/ DataOf(TheGroup, TOGGLE_TARGET_REMOVAL_DATE) = <<>>),
                    DefaultRule(TheGroup))

\* A temporary toggle with an empty removal date and no name: several rules
\* fire for the one group.
C1_Witness ==
    /\ GroupChecked
    /\ NoDuplicates(TheGroup)
    /\ IsTemporary(TheGroup)
    /\ Present(TheGroup, TOGGLE_TARGET_REMOVAL_DATE)
    /\ DataOf(TheGroup, TOGGLE_TARGET_REMOVAL_DATE) = <<>>
    /\ ~Present(TheGroup, TOGGLE_NAME)
    /\ MessageIds = <<INCORRECT_NAME_MESSAGE_ID, EMPTY_DESCRIPTION_MESSAGE_ID,
                      MISSING_TARGET_REMOVAL_DATE_MESSAGE_ID>>

\* The precondition of C2 as the claim words it.
C2_Case(g) ==
    /\ NoDuplicates(g)
    /\ Present(g, TOGGLE_NAME)
    /\ DataOf(g, TOGGLE_NAME) # <<>>
    /\ Present(g, TOGGLE_DESCRIPTION)
    /\ ~Blank(DataOf(g, TOGGLE_DESCRIPTION))
    /\ Present(g, TOGGLE_USE_CASES)
    /\ DataOf(g, TOGGLE_USE_CASES)
         = temporary \o <<",", " ", "r", "e", "l", "e", "a", "s", "e">>
    /\ ~Present(g, TOGGLE_TARGET_REMOVAL_DATE)

\* C2, as claimed: a group with a (non-empty) name, a non-blank description, use cases
\* "temporary, release" and no removal date produces the missing removal
\* date message and nothing else.
C2_AsClaimed ==
    (GroupChecked /\ C2_Case(TheGroup)) =>
        MessageIds = <<MISSING_TARGET_REMOVAL_DATE_MESSAGE_ID>>

\* C2, amended: the same, for a group whose toggle_default is "True" or
\* "False".
C2_OnlyRemovalDate ==
    (/\ GroupChecked
     /\ C2_Case(TheGroup)
     /\ Present(TheGroup, TOGGLE_DEFAULT)
     /\ DataOf(TheGroup, TOGGLE_DEFAULT) \in {StrTrue, StrFalse}) =>
        /\ MessageIds = <<MISSING_TARGET_REMOVAL_DATE_MESSAGE_ID>>
        /\ messages[1].args = <<DataOf(TheGroup, TOGGLE_NAME)>>

C2_Witness ==
    /\ GroupChecked
    /\ C2_Case(TheGroup)
    /\ Present(TheGroup, TOGGLE_DEFAULT)
    /\ DataOf(TheGroup, TOGGLE_DEFAULT) = StrFalse
    /\ Len(messages) = 1

\* C3, as claimed: a group whose non-empty toggle_name is not its first
\* annotation produces the incorrect name message.
C3_NameDeclaredFirst ==
    (/\ GroupChecked
     /\ NoDuplicates(TheGroup)
     /\ Present(TheGroup, TOGGLE_NAME)
     /\ DataOf(TheGroup, TOGGLE_NAME) # <<>>
     /\ TheGroup[1].annotation_token # TOGGLE_NAME) =>
        \E i \in 1..Len(messages) : messages[i].msg_id = INCORRECT_NAME_MESSAGE_ID

\* The group with, of each token of tokens, only the last occurrence kept.
KeepLast(g, tokens) ==
    LET Kept(i) ==
            \/ g[i].annotation_token \notin tokens
            \/ \A j \in Occurrences(g, g[i].annotation_token) : j <= i
        F[i \in 0..Len(g)] ==
            IF i = 0 THEN <<>>
            ELSE IF Kept(i) THEN Append(F[i - 1], g[i]) ELSE F[i - 1]
    IN  F[Len(g)]

\* C10, as claimed: the messages of a group are those of the group in which
\* only the last occurrence of each recognized token is kept.
C10_AsClaimed ==
    GroupChecked =>
        messages = check_feature_toggles_annotation_group(
                       KeepLast(TheGroup, RecognizedTokens), visited.node)

\* C10, amended: the messages of a group are those of the group in which
\* only the last occurrence of each of toggle_name, toggle_description,
\* toggle_target_removal_date and toggle_default is kept; toggle_use_cases
\* accumulates instead: the group is temporary when any occurrence contains
\* "temporary", whatever a later occurrence says.
C10_LastWriteWins ==
    GroupChecked =>
        /\ messages = check_feature_toggles_annotation_group(
                          KeepLast(TheGroup, RecognizedTokens \ {TOGGLE_USE_CASES}),
                          visited.node)
        /\ TheGroup # <<>> =>
              MessageIds =
                  RuleIds(NameRule(TheGroup), DescriptionRule(TheGroup),
                          IsTemporary(TheGroup)
                            /\ (\/ ~Present(TheGroup, TOGGLE_TARGET_REMOVAL_DATE)
                                \/ DataOf(TheGroup, TOGGLE_TARGET_REMOVAL_DATE) = <<>>),
                          DefaultRule(TheGroup))

\* A group with two defaults, the first valid and the last not, and with
\* "temporary" use cases followed by others.
C10_Witness ==
    /\ GroupChecked
    /\ Cardinality(Occurrences(TheGroup, TOGGLE_DEFAULT)) = 2
    /\ TheGroup[1].annotation_data = StrTrue
    /\ Cardinality(Occurrences(TheGroup, TOGGLE_USE_CASES)) = 2
    /\ HasTemporary(TheGroup[3].annotation_data)
    /\ ~HasTemporary(TheGroup[4].annotation_data)
    /\ MessageIds = <<INCORRECT_NAME_MESSAGE_ID, EMPTY_DESCRIPTION_MESSAGE_ID,
                      MISSING_TARGET_REMOVAL_DATE_MESSAGE_ID, NON_BOOLEAN_DEFAULT_VALUE>>

----------------------------------------------------------------------------
(* Properties of the presence rules (Spec) *)

\* The lines of the module being walked, whatever the checker holds.
ModuleLines == SplitLines(Decode(cur.node.stream, "UTF-8"))

\* isLineAnnotated on the module being walked.
Annotated(n) == is_line_annotated(ModuleLines, n)

IsMissing(m) == m.msg_id = TOGGLE_NOT_ANNOTATED_MESSAGE_ID

IsIllegal(m) == m.msg_id = ILLEGAL_WAFFLE_MESSAGE_ID

\* The callee is a simple name, starts with a capital and ends with the
\* name of a waffle class.
IsWaffleClassCall(node) ==
    /\ HasAttr(node.func, "name")
    /\ node.func.name[1] \in UpperCase
    /\ \E c \in {WaffleFlag, WaffleSwitch, CourseWaffleFlag} :
          /\ Len(c) <= Len(node.func.name)
          /\ SubSeq(node.func.name, Len(node.func.name) - Len(c) + 1,
                    Len(node.func.name)) = c

\* The values of the keywords named flag_name.
FlagNames(node) ==
    IF IsNone(node.keywords)
    THEN {}
    ELSE {Value(node.keywords)[i].value.value :
             i \in {j \in 1..Len(Value(node.keywords)) :
                       Value(node.keywords)[j].arg = Some("flag_name")}}

\* C4, as claimed: the name a missing-annotation message carries for a
\* waffle class call is the value of the flag_name keyword whenever there
\* is one, else the second positional argument when there are two, else
\* "UNKNOWN".
C4_NamePriority ==
    (visited.op = "visit_call" /\ IsWaffleClassCall(visited.node)) =>
        \A i \in 1..Len(messages) :
            IsMissing(messages[i]) =>
                messages[i].args =
                    <<IF FlagNames(visited.node) # {}
                      THEN CHOOSE v \in FlagNames(visited.node) : TRUE
                      ELSE IF Len(visited.node.args) >= 2
                           THEN visited.node.args[2]
                           ELSE UNKNOWN>>

\* C5: a waffle class call, or a class with ConfigurationModel among its
\* base names, gets exactly one missing-annotation message, anchored at the
\* node, when the line before it is not annotated, and none when it is;
\* other calls and classes get none.
C5_PresenceRule ==
    LET missing == SelectSeq(messages, IsMissing)
        node == visited.node
        Reported(due) ==
            IF due /\ ~Annotated(node.lineno - 1)
            THEN Len(missing) = 1 /\ missing[1].node = node
            ELSE missing = <<>>
    IN  /\ visited.op = "visit_call" => Reported(IsWaffleClassCall(node))
        /\ visited.op = "visit_classdef" =>
              /\ Reported(\E i \in 1..Len(node.basenames) :
                              node.basenames[i] = ConfigurationModel)
              /\ \A i \in 1..Len(missing) : missing[i].args = <<node.name>>
        /\ (/\ visited.op = "visit_call"
            /\ IsWaffleClassCall(node)
            /\ node.lineno = 1) => Len(missing) = 1

\* A waffle class call on line 2 of a module whose line 1 is code.
C5_Witness ==
    /\ visited.op = "visit_call"
    /\ IsWaffleClassCall(visited.node)
    /\ visited.node.func.name # WaffleFlag
    /\ visited.node.lineno = 2
    /\ ~Annotated(1)
    /\ Len(messages) = 1
    /\ messages[1].node = visited.node

\* C6: a call of flag_is_active or switch_is_active gets exactly one
\* message, the illegal usage one, with the first positional argument or
\* "UNKNOWN", whatever the line before it holds.
C6_IllegalUsage ==
    (/\ visited.op = "visit_call"
     /\ HasAttr(visited.node.func, "name")
     /\ visited.node.func.name \in {flag_is_active, switch_is_active}) =>
        /\ Len(messages) = 1
        /\ IsIllegal(messages[1])
        /\ messages[1].node = visited.node
        /\ messages[1].args =
              <<IF visited.node.args = <<>> THEN UNKNOWN ELSE visited.node.args[1]>>

\* switch_is_active("a") right below an annotation.
C6_Witness ==
    /\ visited.op = "visit_call"
    /\ HasAttr(visited.node.func, "name")
    /\ visited.node.func.name = switch_is_active
    /\ Len(visited.node.args) = 1
    /\ Annotated(visited.node.lineno - 1)
    /\ Len(messages) = 1
    /\ IsIllegal(messages[1])

\* The dictionary is the value of an assignment whose (first) target is the
\* simple name FEATURES.
AssignedToFeatures(node) ==
    /\ HasAttr(node.parent, "targets")
    /\ HasAttr(node.parent.targets[1], "name")
    /\ node.parent.targets[1].name = FEATURES

\* The entries of the dictionary whose key is not annotated.
Unannotated(node) ==
    {i \in 1..Len(node.items) : ~Annotated(node.items[i][1].lineno - 1)}

----------------------------------------------------------------------------
(* Properties of the line index (SpecLines) *)

ModuleText == Decode(cur.node.stream, "UTF-8")

\* The positions that bound the lines of a text: before its first
\* character, at each line feed, after its last character.
Breaks(text) == {0, Len(text) + 1} \cup {i \in 1..Len(text) : text[i] = "\n"}

Nth(S, k) == CHOOSE x \in S : Cardinality({y \in S : y < x}) = k - 1

TotalLines(text) == Cardinality(Breaks(text)) - 1

LineOf(text, n) ==
    SubSeq(text, Nth(Breaks(text), n) + 1, Nth(Breaks(text), n + 1) - 1)

\* From its first character the line is: whitespace, "#", whitespace, "..",
\* whitespace, "toggle", anything.
StartsWithMarker(line) ==
    \E a, b, c \in 0..Len(line) :
        /\ a + 1 <= b /\ b + 2 <= c /\ c + 6 <= Len(line)
        /\ \A i \in 1..a : line[i] \in Whitespace
        /\ line[a + 1] = "#"
        /\ \A i \in (a + 2)..b : line[i] \in Whitespace
        /\ line[b + 1] = "." /\ line[b + 2] = "."
        /\ \A i \in (b + 3)..c : line[i] \in Whitespace
        /\ SubSeq(line, c + 1, c + 6) = toggle

\* C8: isLineAnnotated(n) is true exactly when n is a line of the module
\* and that line starts with the marker; it is false for n < 1 and for n
\* beyond the last line.
C8_IsLineAnnotated ==
    ~IsNone(probe) =>
        LET n == Value(probe).line_number
        IN  Value(probe).result
              = (/\ 1 <= n
                 /\ n <= TotalLines(ModuleText)
                 /\ StartsWithMarker(LineOf(ModuleText, n)))

\* Line 2 of a two-line module, indented, is found annotated.
C8_Witness ==
    /\ ~IsNone(probe)
    /\ Value(probe).line_number = 2
    /\ Value(probe).result
    /\ TotalLines(ModuleText) = 2
    /\ LineOf(ModuleText, 2)[1] = " "

----------------------------------------------------------------------------
(* Properties of repeated walks (SpecRuns) *)

\* C9: once a walk has started a module, the checker's line index is that
\* of this module alone; and a walk of a module walked before ends with the
\* report its first walk ended with.
C9_RebuiltPerModule ==
    /\ (pos >= 1 /\ cur.events[1].kind = "module") =>
          _lines = Some(SplitLines(Decode(cur.node.stream, "UTF-8")))
    /\ pos = Len(cur.events) =>
          \A h \in history : h.module = cur => h.report = report

\* A second walk of a module ends, after a module with other lines and
\* another report was walked, with messages reported.
C9_Witness ==
    /\ pos = Len(cur.events)
    /\ Len(report) >= 2
    /\ \E h \in history : h.module = cur
    /\ \E h \in history :
          /\ h.module.node # cur.node
          /\ h.module.events = cur.events
          /\ h.report # report

====
